---------------------------- MODULE Spec2Model ----------------------------
(***************************************************************************)
(* Model of the task-list front end's state synchronisation (src/App.js):  *)
(* the `tasks` state of the App component, the four asynchronous handlers  *)
(* refreshTasks, updateTask, deleteTask and addTask, their axios helpers,  *)
(* and the remote task API they talk to.                                   *)
(*                                                                         *)
(* An invocation of a handler is a record of `calls`.  It is suspended     *)
(* exactly at its axios call (pc = "request": the request is on its way,   *)
(* pc = "response": the server has answered or the transport has failed),  *)
(* and the code after the await runs to completion in one step (Settle).   *)
(***************************************************************************)
EXTENDS Integers, Sequences, FiniteSets

\* ------------------------------------------------------------------ bounds
MaxCalls == 3        \* handler invocations in a session, the mount refresh included
MaxId    == 2        \* ids the server hands out, and the ids the callbacks are called with
MaxSeqCalls == 4     \* handler invocations in a session that issues them one at a time
MaxPairCalls == 3    \* handler invocations in a session whose transport never fails
MaxPairInit == 2     \* tasks the server holds when such a session starts
MaxLiveCalls == 2    \* handler invocations in a session checked for progress
MaxInit  == 1        \* tasks the server holds when the session starts

Ids         == 1..MaxId
DraftTitles == {"B"}                 \* titles typed into the new-task form
DraftDescriptions == {"", "mine"}    \* descriptions a caller may put in the draft
NoTask      == <<>>                  \* an empty response body

VARIABLES
    tasks,      \* App.js:110  the `tasks` state: a sequence of JS-style task objects
    calls,      \* the handler invocations so far, each with its position
    server,     \* the remote API's collection: a sequence of API-style records
    nextId      \* the id the remote API assigns to the next created task

vars == <<tasks, calls, server, nextId>>

\* ----------------------------------------------------------- pure helpers
Range(s) == {s[i] : i \in DOMAIN s}

IdsOf(s) == {s[i].id : i \in DOMAIN s}

\* App.js:11-18  the renaming transform: is_complete -> isComplete
\* A transform that loses the description on the way in.
taskApiToJsonNoDescription(task) ==
    [description |-> "", id |-> task.id,
     isComplete |-> task.is_complete, title |-> task.title]

taskApiToJson(task) ==
    [description |-> task.description, id |-> task.id,
     isComplete |-> task.is_complete, title |-> task.title]

\* App.js:31  response.data.map(taskApiToJson)
MapApiToJson(data) == [i \in DOMAIN data |-> taskApiToJson(data[i])]

\* App.js:136  tasks.find(task => task.id === id): the first match, or none
FindTask(ts, id) ==
    IF id \in IdsOf(ts)
    THEN <<ts[CHOOSE i \in DOMAIN ts :
                 ts[i].id = id /\ \A j \in 1..(i - 1) : ts[j].id # id]>>
    ELSE <<>>


\* ------------------------------------------------- requests and responses
NoBody == [title |-> "", description |-> "", completed_at |-> "null"]

Request(endpoint, id, body) == [endpoint |-> endpoint, id |-> id, body |-> body]

NoResp == [status |-> "none", data |-> <<>>]

OkResp(data) == [status |-> "ok", data |-> data]

ErrResp == [status |-> "error", data |-> <<>>]

\* ---------------------------------------------------------- the remote API
\* GET /tasks: the whole collection, in the server's order
ServerList(srv, nid) == [server |-> srv, nextId |-> nid, resp |-> OkResp(srv)]

\* PATCH /tasks/{id}/mark_complete and /mark_incomplete: the record is updated in
\* place and returned as { task: <record> }; an unknown id is answered with an error
ServerMark(srv, nid, id, flag) ==
    IF id \in IdsOf(srv)
    THEN LET new == [i \in DOMAIN srv |->
                        IF srv[i].id = id THEN [srv[i] EXCEPT !.is_complete = flag]
                        ELSE srv[i]]
             i0  == CHOOSE i \in DOMAIN srv : srv[i].id = id
         IN  [server |-> new, nextId |-> nid, resp |-> OkResp(<<new[i0]>>)]
    ELSE [server |-> srv, nextId |-> nid, resp |-> ErrResp]

\* DELETE /tasks/{id}: the record is dropped; an unknown id is answered with an error
ServerDelete(srv, nid, id) ==
    IF id \in IdsOf(srv)
    THEN [server |-> SelectSeq(srv, LAMBDA t : t.id # id), nextId |-> nid,
          resp |-> OkResp(NoTask)]
    ELSE [server |-> srv, nextId |-> nid, resp |-> ErrResp]

\* POST /tasks: the server assigns the id, stores the record last and returns it
ServerCreate(srv, nid, body) ==
    LET rec == [id |-> nid, title |-> body.title, description |-> body.description,
                is_complete |-> (body.completed_at # "null")]
    IN  [server |-> Append(srv, rec), nextId |-> nid + 1, resp |-> OkResp(<<rec>>)]

ServerHandle(srv, nid, req) ==
    CASE req.endpoint = "list"            -> ServerList(srv, nid)
      [] req.endpoint = "mark_complete"   -> ServerMark(srv, nid, req.id, TRUE)
      [] req.endpoint = "mark_incomplete" -> ServerMark(srv, nid, req.id, FALSE)
      [] req.endpoint = "delete"          -> ServerDelete(srv, nid, req.id)
      [] req.endpoint = "create"          -> ServerCreate(srv, nid, req.body)

\* ------------------------------------------------------- the axios helpers
\* What an async helper settles to: fulfilled with a value, or rejected with the
\* simplified Error it throws from its catch block.
Fulfilled(value) == [ok |-> TRUE, value |-> value, error |-> ""]

Rejected(message) == [ok |-> FALSE, value |-> <<>>, error |-> message]

\* App.js:24-39
getTasksAsync(resp) ==
    IF resp.status = "ok" THEN Fulfilled(MapApiToJson(resp.data))
    ELSE Rejected("error fetching tasks")

\* The two endpoints taken for each other.
UpdateEndpointSwapped(markComplete) ==
    IF markComplete THEN "mark_incomplete" ELSE "mark_complete"

\* App.js:48  the endpoint is picked from markComplete
UpdateEndpoint(markComplete) ==
    IF markComplete THEN "mark_complete" ELSE "mark_incomplete"

\* App.js:47-63  (the part after the await)
updateTaskAsync(resp) ==
    IF resp.status = "ok" /\ Len(resp.data) = 1
    THEN Fulfilled(<<taskApiToJson(resp.data[1])>>)
    ELSE Rejected("error updating task")

\* App.js:68-77
deleteTaskAsync(resp) ==
    IF resp.status = "ok" THEN Fulfilled(<<>>)
    ELSE Rejected("error deleting task")

\* App.js:84-92  the request body of a create
\* A request body that takes the description from the caller's draft.
AddBodyFromDraft(taskData) ==
    [title |-> taskData.title,
     description |-> taskData.description,
     completed_at |-> IF taskData.isComplete THEN "now" ELSE "null"]

AddBody(taskData) ==
    [title |-> taskData.title,
     description |-> "created in Task List Front End",
     completed_at |-> IF taskData.isComplete THEN "now" ELSE "null"]

\* App.js:82-107  (the part after the await)
addTaskAsync(resp) ==
    IF resp.status = "ok" /\ Len(resp.data) = 1
    THEN Fulfilled(<<taskApiToJson(resp.data[1])>>)
    ELSE Rejected("error creating task")

\* ---------------------------------------- the handlers, after their await
\* What a handler leaves behind: the new `tasks` state, the branch it took
\* ("try": the state update, "catch": console.log of the message), what it
\* logged, and how its own promise settled.
Result(ts, path, log, promise) ==
    [tasks |-> ts, path |-> path, log |-> log, promise |-> promise]

\* refreshTasks merging instead of overwriting: fetched tasks not yet listed are
\* appended to the old list.
refreshTasksMerge(oldTasks, resp) ==
    LET p == getTasksAsync(resp)
    IN  IF p.ok
        THEN Result(oldTasks \o SelectSeq(p.value, LAMBDA t : t.id \notin IdsOf(oldTasks)),
                    "try", "", "fulfilled")
        ELSE Result(oldTasks, "catch", p.error, "fulfilled")

\* refreshTasks without its setTasks: the fetched list is dropped.
refreshTasksKeepsOld(oldTasks, resp) ==
    LET p == getTasksAsync(resp)
    IN  IF p.ok THEN Result(oldTasks, "try", "", "fulfilled")
        ELSE Result(oldTasks, "catch", p.error, "fulfilled")

\* App.js:120-127  setTasks(tasks): the state is overwritten
refreshTasks(oldTasks, resp) ==
    LET p == getTasksAsync(resp)
    IN  IF p.ok THEN Result(p.value, "try", "", "fulfilled")
        ELSE Result(oldTasks, "catch", p.error, "fulfilled")

\* The updated task moved to the end of the list instead of replaced in place.
ReplaceTaskAtEnd(oldTasks, newTask) ==
    IF newTask.id \in IdsOf(oldTasks)
    THEN Append(SelectSeq(oldTasks, LAMBDA t : t.id # newTask.id), newTask)
    ELSE oldTasks

\* An upsert: the updated task is appended when its id is no longer listed.
ReplaceTaskUpsert(oldTasks, newTask) ==
    IF newTask.id \in IdsOf(oldTasks)
    THEN [i \in DOMAIN oldTasks |->
             IF oldTasks[i].id = newTask.id THEN newTask ELSE oldTasks[i]]
    ELSE Append(oldTasks, newTask)

\* The map without its else branch: every element becomes the updated task.
ReplaceTaskAll(oldTasks, newTask) == [i \in DOMAIN oldTasks |-> newTask]

\* App.js:147-159  oldTasks.map(...): the task with newTask's id is replaced
ReplaceTask(oldTasks, newTask) ==
    [i \in DOMAIN oldTasks |->
        IF oldTasks[i].id = newTask.id THEN newTask ELSE oldTasks[i]]

\* updateTask flipping the task locally when the request fails.
updateTaskFlipOnFailure(oldTasks, resp) ==
    LET p == updateTaskAsync(resp)
    IN  IF p.ok THEN Result(ReplaceTask(oldTasks, p.value[1]), "try", "", "fulfilled")
        ELSE Result([i \in DOMAIN oldTasks |->
                        [oldTasks[i] EXCEPT !.isComplete = ~oldTasks[i].isComplete]],
                    "catch", p.error, "fulfilled")

\* App.js:142-162
updateTask(oldTasks, resp) ==
    LET p == updateTaskAsync(resp)
    IN  IF p.ok THEN Result(ReplaceTask(oldTasks, p.value[1]), "try", "", "fulfilled")
        ELSE Result(oldTasks, "catch", p.error, "fulfilled")

\* The filter with its test inverted: only the task with the id is kept.
RemoveTaskInverted(oldTasks, id) == SelectSeq(oldTasks, LAMBDA t : t.id = id)

\* App.js:176-179  oldTasks.filter(task => task.id !== id)
RemoveTask(oldTasks, id) == SelectSeq(oldTasks, LAMBDA t : t.id # id)

\* deleteTask updating the list before it knows the outcome of the request.
deleteTaskOptimistic(oldTasks, id, resp) ==
    LET p == deleteTaskAsync(resp)
    IN  IF p.ok THEN Result(RemoveTask(oldTasks, id), "try", "", "fulfilled")
        ELSE Result(RemoveTask(oldTasks, id), "catch", p.error, "fulfilled")

\* App.js:170-183
deleteTask(oldTasks, id, resp) ==
    LET p == deleteTaskAsync(resp)
    IN  IF p.ok THEN Result(RemoveTask(oldTasks, id), "try", "", "fulfilled")
        ELSE Result(oldTasks, "catch", p.error, "fulfilled")

\* The new task put first: [task, ...oldTasks]
PrependTask(oldTasks, task) == <<task>> \o oldTasks

\* App.js:196  [...oldTasks, task]
AppendTask(oldTasks, task) == Append(oldTasks, task)

\* addTask without its try/catch: the helper's Error leaves the handler.
addTaskNoCatch(oldTasks, resp) ==
    LET p == addTaskAsync(resp)
    IN  IF p.ok THEN Result(AppendTask(oldTasks, p.value[1]), "try", "", "fulfilled")
        ELSE Result(oldTasks, "throw", "", "rejected")

\* App.js:189-200
addTask(oldTasks, resp) ==
    LET p == addTaskAsync(resp)
    IN  IF p.ok THEN Result(AppendTask(oldTasks, p.value[1]), "try", "", "fulfilled")
        ELSE Result(oldTasks, "catch", p.error, "fulfilled")

\* The code that runs when call r's awaited request settles with resp.
Continue(oldTasks, r, resp) ==
    CASE r.op = "refresh" -> refreshTasks(oldTasks, resp)
      [] r.op = "toggle"  -> updateTask(oldTasks, resp)
      [] r.op = "remove"  -> deleteTask(oldTasks, r.id, resp)
      [] r.op = "add"     -> addTask(oldTasks, resp)

\* ------------------------------------------------------------ invocations
\* A handler invocation suspended at its axios call: `task` is what the handler
\* found at call time (updateTask's `const task`), `req` the request it issued,
\* `sent` the number of requests it has issued.
Pending(op, id, task, req) ==
    [op |-> op, id |-> id, task |-> task, req |-> req, pc |-> "request",
     resp |-> NoResp, sent |-> 1, path |-> "", log |-> "", promise |-> "pending"]

\* App.js:139  `if (!task) { return; }`: the handler is over before any request
Returned(op, id) ==
    [op |-> op, id |-> id, task |-> <<>>, req |-> Request("none", id, NoBody),
     pc |-> "done", resp |-> NoResp, sent |-> 0, path |-> "return", log |-> "",
     promise |-> "fulfilled"]

\* A handler that issues its request once more when the first one failed.
DoneRetry(r, h) ==
    IF h.path = "catch" /\ r.sent < 2
    THEN [r EXCEPT !.pc = "request", !.resp = NoResp, !.sent = r.sent + 1]
    ELSE [r EXCEPT !.pc = "done", !.resp = NoResp, !.path = h.path, !.log = h.log,
                   !.promise = h.promise]

\* The invocation once its continuation h has run.
Done(r, h) ==
    [r EXCEPT !.pc = "done", !.resp = NoResp, !.path = h.path, !.log = h.log,
              !.promise = h.promise]

InFlight == {c \in DOMAIN calls : calls[c].pc # "done"}

\* App.js:120-122  refreshTasks() up to its await
StartRefresh == Pending("refresh", 0, <<>>, Request("list", 0, NoBody))

\* updateTask without its early return: an id that is not listed is asked to be
\* marked complete (`!task?.isComplete`).
StartUpdateNoGuard(ts, id) ==
    LET task == FindTask(ts, id)
    IN  IF task = <<>>
        THEN Pending("toggle", id, task, Request(UpdateEndpoint(TRUE), id, NoBody))
        ELSE Pending("toggle", id, task,
                     Request(UpdateEndpoint(~task[1].isComplete), id, NoBody))

\* updateTask asking for the value the task already has.
StartUpdateSameValue(ts, id) ==
    LET task == FindTask(ts, id)
    IN  IF task = <<>> THEN Returned("toggle", id)
        ELSE Pending("toggle", id, task,
                     Request(UpdateEndpoint(task[1].isComplete), id, NoBody))

\* App.js:134-143  updateTask(id) up to its await: the task is looked up in the
\* tasks of the render the callback belongs to, and the request asks for the
\* opposite of its isComplete
StartUpdate(ts, id) ==
    LET task == FindTask(ts, id)
    IN  IF task = <<>> THEN Returned("toggle", id)
        ELSE Pending("toggle", id, task,
                     Request(UpdateEndpoint(~task[1].isComplete), id, NoBody))

\* App.js:170-172 and 68-70  deleteTask(id) up to its await
StartDelete(id) == Pending("remove", id, <<>>, Request("delete", id, NoBody))

\* App.js:189-191 and 82-95  addTask(taskData) up to its await
StartAdd(taskData) ==
    Pending("add", 0, <<>>, Request("create", 0, AddBody(taskData)))

\* The records the remote API may hold when the session starts.
InitialRecord(i) ==
    {[id |-> i, title |-> "A", description |-> "", is_complete |-> b] : b \in BOOLEAN}

ServersUpTo(m) ==
    UNION {{s \in [1..n -> UNION {InitialRecord(i) : i \in 1..n}] :
                \A i \in 1..n : s[i].id = i} : n \in 0..m}

InitialServers == ServersUpTo(MaxInit)

\* The state initialised with sample data instead of an empty list.
InitWithSampleTasks ==
    /\ tasks = <<[id |-> 1, title |-> "A", description |-> "", isComplete |-> FALSE]>>
    /\ calls = <<StartRefresh>>
    /\ server \in InitialServers
    /\ nextId = Len(server) + 1

\* App.js:110-115  useState([]), and the effect that runs refreshTasks on mount
Init ==
    /\ tasks = <<>>
    /\ calls = <<StartRefresh>>
    /\ server \in InitialServers
    /\ nextId = Len(server) + 1

\* A remove that drops the task from the list before its request is answered.
InvokeOptimistic(r) ==
    /\ calls' = Append(calls, r)
    /\ tasks' = IF r.op = "remove" THEN RemoveTask(tasks, r.id) ELSE tasks
    /\ UNCHANGED <<server, nextId>>

\* A callback is invoked and runs up to its await (or its early return).
Invoke(r) ==
    /\ calls' = Append(calls, r)
    /\ UNCHANGED <<tasks, server, nextId>>

CallRefresh == Len(calls) < MaxCalls /\ Invoke(StartRefresh)

CallToggle(id) == Len(calls) < MaxCalls /\ Invoke(StartUpdate(tasks, id))

CallRemove(id) == Len(calls) < MaxCalls /\ Invoke(StartDelete(id))

CallAdd(taskData) == Len(calls) < MaxCalls /\ Invoke(StartAdd(taskData))

\* The remote API handles the request of call c and answers it.
Serve(c) ==
    /\ calls[c].pc = "request"
    /\ calls[c].req.endpoint = "create" => nextId <= MaxId
    /\ LET a == ServerHandle(server, nextId, calls[c].req)
       IN  /\ server' = a.server
           /\ nextId' = a.nextId
           /\ calls' = [calls EXCEPT ![c].pc = "response", ![c].resp = a.resp]
    /\ UNCHANGED tasks

\* The transport fails: the request never reaches the server, or its answer is
\* lost on the way back (the server has then already acted on it).
Fail(c) ==
    /\ \/ calls[c].pc = "request"
       \/ calls[c].pc = "response" /\ calls[c].resp.status = "ok"
    /\ calls' = [calls EXCEPT ![c].pc = "response", ![c].resp = ErrResp]
    /\ UNCHANGED <<tasks, server, nextId>>

\* The awaited call of invocation c settles and the rest of the handler runs.
Settle(c) ==
    /\ calls[c].pc = "response"
    /\ LET h == Continue(tasks, calls[c], calls[c].resp)
       IN  /\ tasks' = h.tasks
           /\ calls' = [calls EXCEPT ![c] = Done(calls[c], h)]
    /\ UNCHANGED <<server, nextId>>

Drafts == [title : DraftTitles, isComplete : BOOLEAN, description : DraftDescriptions]

Next ==
    \/ CallRefresh
    \/ \E id \in Ids : CallToggle(id)
    \/ \E id \in Ids : CallRemove(id)
    \/ \E d \in Drafts : CallAdd(d)
    \/ \E c \in DOMAIN calls : Serve(c)
    \/ \E c \in DOMAIN calls : Fail(c)
    \/ \E c \in DOMAIN calls : Settle(c)

\* The invocations a user can start from the rendered list ts.
Starts(ts) ==
    {StartRefresh}
        \cup {StartUpdate(ts, id) : id \in Ids}
        \cup {StartDelete(id) : id \in Ids}
        \cup {StartAdd(d) : d \in Drafts}

\* The happy path: an invocation starts only when every earlier one is over, and
\* the transport never fails.
SeqInvoke ==
    /\ InFlight = {}
    /\ Len(calls) < MaxSeqCalls
    /\ \E r \in Starts(tasks) : Invoke(r)

SeqNext ==
    \/ SeqInvoke
    \/ \E c \in DOMAIN calls : Serve(c)
    \/ \E c \in DOMAIN calls : Settle(c)

SeqSpec == Init /\ [][SeqNext]_vars

\* Sessions in which invocations overlap freely and the transport never fails,
\* started against a server that may hold several tasks.
PairInit ==
    /\ tasks = <<>>
    /\ calls = <<StartRefresh>>
    /\ server \in ServersUpTo(MaxPairInit)
    /\ nextId = Len(server) + 1

PairInvoke ==
    /\ Len(calls) < MaxPairCalls
    /\ \E r \in Starts(tasks) : Invoke(r)

PairNext ==
    \/ PairInvoke
    \/ \E c \in DOMAIN calls : Serve(c)
    \/ \E c \in DOMAIN calls : Settle(c)

PairSpec == PairInit /\ [][PairNext]_vars

\* Sessions that end with a refresh issued alone: the invocations before the
\* last one overlap and fail freely, and the last one is a refresh started once
\* all of them are over.
ConvInvoke ==
    \/ /\ Len(calls) < MaxCalls - 1
       /\ \E r \in Starts(tasks) : Invoke(r)
    \/ /\ Len(calls) = MaxCalls - 1
       /\ InFlight = {}
       /\ Invoke(StartRefresh)

ConvNext ==
    \/ ConvInvoke
    \/ \E c \in DOMAIN calls : Serve(c)
    \/ \E c \in DOMAIN calls : Fail(c)
    \/ \E c \in DOMAIN calls : Settle(c)

ConvSpec == Init /\ [][ConvNext]_vars

\* Sessions under the event loop's guarantee: once the awaited call of an
\* invocation has settled, the rest of the handler is eventually run.  Nothing
\* makes the server or the transport answer a request.
LiveInvoke ==
    /\ Len(calls) < MaxLiveCalls
    /\ \E r \in Starts(tasks) : Invoke(r)

LiveNext ==
    \/ LiveInvoke
    \/ \E c \in DOMAIN calls : Serve(c)
    \/ \E c \in DOMAIN calls : Fail(c)
    \/ \E c \in DOMAIN calls : Settle(c)

LiveSpec ==
    /\ Init
    /\ [][LiveNext]_vars
    /\ \A c \in 1..MaxLiveCalls : WF_vars(c \in DOMAIN calls /\ Settle(c))

Spec == Init /\ [][Next]_vars

\* Settle(c) applies a successful response of an invocation of `op`.
Applies(c, op) ==
    /\ Settle(c)
    /\ calls[c].op = op
    /\ calls[c].resp.status = "ok"

\* ------------------------------------------------------------------ C1
\* C1: in every reachable state no two tasks of the local collection have the
\* same id.
C1_UniqueIds ==
    \A i, j \in DOMAIN tasks : i # j => tasks[i].id # tasks[j].id

\* ------------------------------------------------------------------ C2
\* C2: when the remote call of a refresh, toggleComplete, remove or add fails,
\* the handler finishes without changing the local collection and without
\* issuing another request.
C2_FailureLeavesTasks ==
    [][\A c \in DOMAIN calls :
          (Settle(c) /\ calls[c].resp.status = "error") =>
              /\ tasks' = tasks
              /\ calls'[c].pc = "done"
              /\ calls'[c].sent = calls[c].sent]_vars

\* A remove whose request failed has finished while its task is still listed.
C2_Witness ==
    \E c \in DOMAIN calls :
        /\ calls[c].op = "remove" /\ calls[c].pc = "done" /\ calls[c].path = "catch"
        /\ calls[c].id \in IdsOf(tasks)

\* ------------------------------------------------------------------ C3
\* C3 as claimed: right after a successful refresh response is applied, the local
\* collection equals the current remote collection, whatever else is in flight.
C3_Original ==
    [][\A c \in DOMAIN calls :
          Applies(c, "refresh") => tasks' = MapApiToJson(server')]_vars

\* C3 as amended: right after a successful refresh response is applied, the local
\* collection is exactly the list the server answered the request with (ids,
\* field values and order, after the renaming transform), whatever the prior
\* local state and whatever else is in flight; nothing of the prior state is kept.
C3_RefreshOverwrites ==
    [][\A c \in DOMAIN calls :
          Applies(c, "refresh") =>
              /\ Len(tasks') = Len(calls[c].resp.data)
              /\ \A i \in DOMAIN tasks' :
                    /\ tasks'[i].id = calls[c].resp.data[i].id
                    /\ tasks'[i].title = calls[c].resp.data[i].title
                    /\ tasks'[i].description = calls[c].resp.data[i].description
                    /\ tasks'[i].isComplete = calls[c].resp.data[i].is_complete]_vars

\* Every invocation is over, a refresh was applied, and the local collection is
\* not the remote one.
C3_Witness ==
    /\ InFlight = {}
    /\ \E c \in DOMAIN calls : calls[c].op = "refresh" /\ calls[c].path = "try"
    /\ tasks # <<>>
    /\ tasks # MapApiToJson(server)

\* ------------------------------------------------------------------ C4
\* C4 as claimed: applying a successful toggleComplete(id) response flips the
\* isComplete of the task with that id and leaves every other task as it was,
\* also when another toggleComplete of the same id is in flight.
C4_Original ==
    [][\A c \in DOMAIN calls :
          Applies(c, "toggle") =>
              /\ Len(tasks') = Len(tasks)
              /\ \A i \in DOMAIN tasks :
                    IF tasks[i].id = calls[c].id
                    THEN tasks'[i].isComplete = ~tasks[i].isComplete
                    ELSE tasks'[i] = tasks[i]]_vars

\* C4 as amended: applying a successful toggleComplete(id) response gives the
\* task with that id, where it is still listed, the opposite of the isComplete
\* it had locally at call time, and leaves every other task as it was; this is
\* a flip of the value it has when the response is applied exactly when that
\* value is still the one seen at call time.
C4_ToggleSetsOpposite ==
    [][\A c \in DOMAIN calls :
          Applies(c, "toggle") =>
              /\ Len(tasks') = Len(tasks)
              /\ \A i \in DOMAIN tasks :
                    IF tasks[i].id = calls[c].id
                    THEN /\ tasks'[i].id = calls[c].id
                         /\ tasks'[i].isComplete = ~calls[c].task[1].isComplete
                         /\ (tasks'[i].isComplete = ~tasks[i].isComplete)
                               <=> (tasks[i].isComplete = calls[c].task[1].isComplete)
                    ELSE tasks'[i] = tasks[i]]_vars

\* Two toggles of the same task that saw the same isComplete were both applied,
\* and the task is still listed.
C4_Witness ==
    \E c, d \in DOMAIN calls :
        /\ c # d
        /\ calls[c].op = "toggle" /\ calls[c].path = "try"
        /\ calls[d].op = "toggle" /\ calls[d].path = "try"
        /\ calls[c].id = calls[d].id
        /\ calls[c].task = calls[d].task
        /\ calls[c].id \in IdsOf(tasks)

\* ------------------------------------------------------------------ C5
\* C5: applying a successful add response leaves the collection as it was with
\* exactly one task appended at the end, whose id is the one the remote create
\* returned; no listed task is changed or moved.
C5_AddAppends ==
    [][\A c \in DOMAIN calls :
          Applies(c, "add") =>
              /\ Len(tasks') = Len(tasks) + 1
              /\ \A i \in DOMAIN tasks : tasks'[i] = tasks[i]
              /\ tasks'[Len(tasks')].id = calls[c].resp.data[1].id]_vars

\* An add was applied to a collection that already held a task.
C5_Witness ==
    /\ \E c \in DOMAIN calls : calls[c].op = "add" /\ calls[c].path = "try"
    /\ Len(tasks) >= 2
    /\ tasks[Len(tasks)].description = "created in Task List Front End"

C7_AbsentToggleIsNoOp ==
    [][\A id \in Ids :
          (CallToggle(id) /\ id \notin IdsOf(tasks)) =>
              /\ tasks' = tasks
              /\ calls'[Len(calls')].sent = 0
              /\ calls'[Len(calls')].pc = "done"
              /\ InFlight' = InFlight]_vars

\* A toggle returned early while the collection holds some other task.
C7_Witness ==
    \E c \in DOMAIN calls :
        /\ calls[c].op = "toggle" /\ calls[c].path = "return"
        /\ tasks # <<>>

\* ------------------------------------------------------------------ C8
\* C8: no fault escapes a handler: whenever an invocation is over, its own
\* promise is fulfilled, whether the remote call succeeded or failed; on a
\* failure the helper's simplified message is what was logged.
FaultMessage(op) ==
    CASE op = "refresh" -> "error fetching tasks"
      [] op = "toggle"  -> "error updating task"
      [] op = "remove"  -> "error deleting task"
      [] op = "add"     -> "error creating task"

C8_NoFaultEscapes ==
    \A c \in DOMAIN calls :
        /\ calls[c].pc = "done" =>
              /\ calls[c].promise = "fulfilled"
              /\ calls[c].path \in {"try", "catch", "return"}
              /\ calls[c].path = "catch" => calls[c].log = FaultMessage(calls[c].op)
        /\ calls[c].pc # "done" => calls[c].promise = "pending"

\* An add and another invocation are over, both after a failed remote call.
C8_Witness ==
    \E c, d \in DOMAIN calls :
        /\ calls[c].op = "add" /\ calls[c].path = "catch"
        /\ calls[d].op # "add" /\ calls[d].path = "catch"

\* ------------------------------------------------------------------ C9
\* C9: when invocations are issued one at a time and the transport never fails,
\* then whenever no invocation is in flight (the mount refresh included) the
\* local collection equals the server's: same ids, same order, same isComplete.
C9_SequentialInSync ==
    InFlight = {} =>
        /\ Len(tasks) = Len(server)
        /\ \A i \in DOMAIN tasks :
              /\ tasks[i].id = server[i].id
              /\ tasks[i].isComplete = server[i].is_complete
              /\ tasks[i].title = server[i].title
              /\ tasks[i].description = server[i].description

\* After the mount refresh, an add and a toggle were applied one after the
\* other and the session is idle with two tasks listed.
C9_Witness ==
    /\ InFlight = {}
    /\ \E c, d \in DOMAIN calls :
          /\ calls[c].op = "add" /\ calls[c].path = "try"
          /\ calls[d].op = "toggle" /\ calls[d].path = "try" /\ c < d
    /\ Len(tasks) = 2

\* ------------------------------------------------------------------ C10
\* C10: the collection starts empty; a task record enters it only out of a
\* successful list, create or update response that is being applied, and an id
\* leaves it only when a successful delete response for that id or a successful
\* refresh response is applied.
C10_Lifecycle ==
    /\ tasks = <<>>
    /\ [][/\ \A t \in Range(tasks') \ Range(tasks) :
                \E c \in DOMAIN calls :
                    /\ \/ Applies(c, "refresh")
                       \/ Applies(c, "add")
                       \/ Applies(c, "toggle")
                    /\ t \in Range(MapApiToJson(calls[c].resp.data))
          /\ \A id \in IdsOf(tasks) \ IdsOf(tasks') :
                \E c \in DOMAIN calls :
                    \/ Applies(c, "refresh")
                    \/ Applies(c, "remove") /\ calls[c].id = id
          /\ Len(tasks') < Len(tasks) =>
                \E c \in DOMAIN calls :
                    Applies(c, "refresh") \/ Applies(c, "remove")]_vars

\* A task that an update response put into the collection has left it again
\* with the applied response of a remove of its id.
C10_Witness ==
    \E c, d \in DOMAIN calls :
        /\ c < d
        /\ calls[c].op = "toggle" /\ calls[c].path = "try"
        /\ calls[d].op = "remove" /\ calls[d].path = "try"
        /\ calls[d].id = calls[c].id
        /\ calls[d].id \notin IdsOf(tasks)

\* ------------------------------------------------------------------ C11
\* C11: once a remove(id) response has been applied the server no longer has the
\* task; a refresh response that still carries it (the list is from before the
\* delete) and is applied afterwards puts the task back into the local
\* collection, and from then on it leaves the collection only when another
\* successful refresh response is applied.
Removed(id) ==
    \E c \in DOMAIN calls :
        calls[c].op = "remove" /\ calls[c].path = "try" /\ calls[c].id = id

C12_RequestFixedAtCall ==
    [][/\ \A id \in Ids :
            (CallToggle(id) /\ id \in IdsOf(tasks)) =>
                LET r    == calls'[Len(calls')]
                    seen == FindTask(tasks, id)[1].isComplete
                IN  /\ r.pc = "request"
                    /\ r.id = id
                    /\ (r.req.endpoint = "mark_complete") <=> (seen = FALSE)
                    /\ (r.req.endpoint = "mark_incomplete") <=> (seen = TRUE)
       /\ \A c \in DOMAIN calls : calls'[c].req = calls[c].req]_vars

\* A toggle that asked for mark_complete is still in flight while the task is
\* by now complete in the local collection.
C12_Witness ==
    \E c \in DOMAIN calls :
        /\ calls[c].op = "toggle" /\ calls[c].pc = "response"
        /\ calls[c].req.endpoint = "mark_complete"
        /\ \E i \in DOMAIN tasks :
              tasks[i].id = calls[c].id /\ tasks[i].isComplete = TRUE

\* ------------------------------------------------------------------ C13
\* C13: applying a toggleComplete response never changes the sequence of ids of
\* the local collection (same length, same order); when the task is no longer
\* listed at that moment the collection is left as it is and the task is not
\* put back.
C13_ToggleKeepsIdSequence ==
    [][\A c \in DOMAIN calls :
          Applies(c, "toggle") =>
              /\ Len(tasks') = Len(tasks)
              /\ \A i \in DOMAIN tasks : tasks'[i].id = tasks[i].id
              /\ calls[c].id \notin IdsOf(tasks) => tasks' = tasks]_vars

\* A toggle and a remove of the same task were both applied and the task is
\* not listed.
C13_Witness ==
    \E c, d \in DOMAIN calls :
        /\ calls[c].op = "toggle" /\ calls[c].path = "try"
        /\ calls[d].op = "remove" /\ calls[d].path = "try"
        /\ calls[c].id = calls[d].id
        /\ calls[c].id \notin IdsOf(tasks)
        /\ InFlight = {}

\* ------------------------------------------------------------------ C14
\* C14: every invocation of refresh, remove and add has issued exactly one
\* request, and an invocation of toggleComplete one when its id was listed at
\* call time and none otherwise; the count never changes afterwards and an
\* invocation never goes back to waiting for the server (no retry); the local
\* collection changes only in the step that applies a successful response,
\* never in the step that sends a request.
C14_OneRequestPerInvocation ==
    /\ [](\A c \in DOMAIN calls :
             calls[c].sent =
                 IF calls[c].op = "toggle" /\ calls[c].task = <<>> THEN 0 ELSE 1)
    /\ [][/\ \A c \in DOMAIN calls :
                /\ calls'[c].sent = calls[c].sent
                /\ calls[c].pc # "request" => calls'[c].pc # "request"
          /\ \A id \in Ids :
                CallToggle(id) =>
                    calls'[Len(calls')].sent = IF id \in IdsOf(tasks) THEN 1 ELSE 0
          /\ Len(calls') > Len(calls) => tasks' = tasks
          /\ tasks' # tasks =>
                \E c \in DOMAIN calls :
                    Settle(c) /\ calls[c].resp.status = "ok"]_vars

\* Every invocation of a full session is over, one of them after a failed
\* request, and tasks are listed.
C14_Witness ==
    /\ Len(calls) = MaxCalls
    /\ InFlight = {}
    /\ \E c \in DOMAIN calls : calls[c].path = "catch" /\ calls[c].sent = 1
    /\ \E c \in DOMAIN calls : calls[c].op = "add" /\ calls[c].path = "try"
    /\ tasks # <<>>

\* ------------------------------------------------------------------ C15
\* C15: the first invocation of a session is the refresh issued at start-up,
\* with its one request; as long as no successful response has been applied
\* the local collection is empty.
C15_StartsEmptyWithRefresh ==
    /\ Len(calls) >= 1
    /\ calls[1].op = "refresh"
    /\ calls[1].sent = 1
    /\ (\A c \in DOMAIN calls : calls[c].path # "try") => tasks = <<>>
    /\ (Len(calls) = 1 /\ calls[1].pc = "request") => tasks = <<>>

\* Only the start-up refresh has run, its response was applied, and tasks are
\* listed.
C15_Witness ==
    /\ Len(calls) = 1
    /\ calls[1].op = "refresh" /\ calls[1].path = "try"
    /\ tasks # <<>>

\* ------------------------------------------------------------------ C16
\* C16: when the successful responses of two invocations on different tasks
\* (toggle/toggle, toggle/remove, toggle/add, remove/add) are both waiting to be
\* applied, applying them one after the other, in either order, gives a
\* collection that reflects both: a toggled task that was listed is still
\* listed and is the record its response returned, a removed id is not listed,
\* an added task is listed, and the length is the old one less the removed
\* entries plus the added one; without an add the two orders give the same
\* collection.
ReadyOk(c) == calls[c].pc = "response" /\ calls[c].resp.status = "ok"

\* The id of the task invocation c is about.
TargetId(c) ==
    IF calls[c].op = "add" THEN calls[c].resp.data[1].id ELSE calls[c].id

\* The collection after the response of invocation c is applied to ts.
After(ts, c) == Continue(ts, calls[c], calls[c].resp).tasks

Reflects(old, new, c) ==
    CASE calls[c].op = "toggle" ->
            /\ calls[c].id \in IdsOf(old) => calls[c].id \in IdsOf(new)
            /\ \A i \in DOMAIN new :
                  new[i].id = calls[c].id
                      => new[i] = taskApiToJson(calls[c].resp.data[1])
      [] calls[c].op = "remove" -> calls[c].id \notin IdsOf(new)
      [] calls[c].op = "add" ->
            taskApiToJson(calls[c].resp.data[1]) \in Range(new)

PairKinds ==
    {<<"toggle", "toggle">>, <<"toggle", "remove">>, <<"remove", "toggle">>,
     <<"toggle", "add">>, <<"add", "toggle">>, <<"remove", "add">>,
     <<"add", "remove">>}

C16_NoLostUpdate ==
    \A c, d \in DOMAIN calls :
        (/\ c # d
         /\ ReadyOk(c) /\ ReadyOk(d)
         /\ <<calls[c].op, calls[d].op>> \in PairKinds
         /\ TargetId(c) # TargetId(d)) =>
            LET cd == After(After(tasks, c), d)
                dc == After(After(tasks, d), c)
                removed == Cardinality({i \in DOMAIN tasks : \E e \in {c, d} :
                               calls[e].op = "remove" /\ tasks[i].id = calls[e].id})
                added == Cardinality({e \in {c, d} : calls[e].op = "add"})
            IN  /\ Reflects(tasks, cd, c) /\ Reflects(tasks, cd, d)
                /\ Reflects(tasks, dc, c) /\ Reflects(tasks, dc, d)
                /\ Len(cd) = Len(tasks) - removed + added
                /\ Len(dc) = Len(tasks) - removed + added
                /\ added = 0 => cd = dc

\* The successful responses of a toggle and of a remove of two different listed
\* tasks are both waiting to be applied.
C16_Witness ==
    \E c, d \in DOMAIN calls :
        /\ ReadyOk(c) /\ calls[c].op = "toggle"
        /\ ReadyOk(d) /\ calls[d].op = "remove"
        /\ calls[c].id # calls[d].id
        /\ {calls[c].id, calls[d].id} \subseteq IdsOf(tasks)

\* ------------------------------------------------------------------ C17
\* C17: whatever the earlier invocations did (overlapping, failing, leaving the
\* local collection with a resurrected task, a duplicate id or a stale flag), a
\* refresh that is issued once all of them are over, with nothing else started
\* before it resolves, and that succeeds, leaves the local collection equal to
\* the server's: same length, same order, same fields.
C17_LoneRefreshConverges ==
    [][\A c \in DOMAIN calls :
          (Applies(c, "refresh") /\ c = MaxCalls) =>
              /\ InFlight = {c}
              /\ Len(tasks') = Len(server')
              /\ \A i \in DOMAIN tasks' :
                    /\ tasks'[i].id = server'[i].id
                    /\ tasks'[i].title = server'[i].title
                    /\ tasks'[i].description = server'[i].description
                    /\ tasks'[i].isComplete = server'[i].is_complete]_vars

\* An add failed on the client although the server created the task (the
\* local collection lacked it), and the final refresh has brought it in.
C17_Witness ==
    /\ Len(calls) = MaxCalls
    /\ calls[MaxCalls].op = "refresh" /\ calls[MaxCalls].path = "try"
    /\ \E c \in DOMAIN calls : calls[c].op = "add" /\ calls[c].path = "catch"
    /\ tasks # <<>>
    /\ tasks[Len(tasks)].description = "created in Task List Front End"
    /\ tasks = MapApiToJson(server)

\* ------------------------------------------------------------------ C18
\* C18: an invocation whose request has got its response, success or failure,
\* eventually completes; an invocation still waiting for a response does not
\* complete and does not change the collection (every change comes with the
\* settling of an answered invocation); and a waiting invocation blocks nothing:
\* a new invocation can always be started, every request can be handled by the
\* server and every answered invocation can be settled.
Answerable(c) ==
    calls[c].pc = "request"
        /\ (calls[c].req.endpoint = "create" => nextId <= MaxId)

C18_ProgressWithoutBlocking ==
    /\ \A c \in 1..MaxLiveCalls :
          (c \in DOMAIN calls /\ calls[c].pc = "response")
              ~> (c \in DOMAIN calls /\ calls[c].pc = "done")
    /\ [][/\ \A c \in DOMAIN calls :
                calls[c].pc = "request" =>
                    /\ calls'[c].pc \in {"request", "response"}
                    /\ calls'[c].promise = "pending"
          /\ tasks' # tasks =>
                \E d \in DOMAIN calls : calls[d].pc = "response" /\ Settle(d)]_vars
    /\ [](\A c \in DOMAIN calls :
             /\ calls[c].pc = "response" => ENABLED Settle(c)
             /\ Answerable(c) => ENABLED Serve(c)
             /\ Len(calls) < MaxLiveCalls => ENABLED LiveInvoke)

\* The start-up refresh is still waiting for its response while a later
\* invocation has been started, answered and applied.
C18_Witness ==
    /\ calls[1].pc = "request"
    /\ \E d \in DOMAIN calls :
          d > 1 /\ calls[d].pc = "done" /\ calls[d].path = "try"
    /\ tasks # <<>>

\* ------------------------------------------------------------------ C19
\* C19: the body of the create request built by add(draft) carries the draft's
\* title, the fixed description 'created in Task List Front End' and a
\* completed_at that is a timestamp exactly when draft.isComplete is true and
\* null otherwise; a description in the draft has no effect on the body.
C19_CreateBody ==
    [][\A d \in Drafts :
          CallAdd(d) =>
              LET r == calls'[Len(calls')]
                  b == r.req.body
              IN  /\ r.req.endpoint = "create"
                  /\ DOMAIN b = {"title", "description", "completed_at"}
                  /\ b.title = d.title
                  /\ b.description = "created in Task List Front End"
                  /\ b.completed_at \in {"now", "null"}
                  /\ (b.completed_at = "now") <=> d.isComplete
                  /\ \A e \in Drafts :
                        (e.title = d.title /\ e.isComplete = d.isComplete)
                            => CallAdd(e)]_vars

\* A draft marked complete has been created, with its timestamp, and the
\* returned record has been appended.
C19_Witness ==
    \E c \in DOMAIN calls :
        /\ calls[c].op = "add"
        /\ calls[c].req.body.completed_at = "now"
        /\ calls[c].path = "try"
        /\ \E t \in Range(tasks) :
              t.isComplete /\ t.description = "created in Task List Front End"

\* ------------------------------------------------------------------ C20
\* The wire shape of an internal record.  App.js has no such function (the
\* completion flag is never sent); it is the renaming read in the other
\* direction, used only to state the round trip.
taskJsonToApi(task) ==
    [description |-> task.description, id |-> task.id,
     is_complete |-> task.isComplete, title |-> task.title]

============================================================================
